---- MODULE Spec2Model ----
(***************************************************************************)
(* Model of vulkano's autogen front end (vulkano/autogen/mod.rs): the      *)
(* extraction of aliases, extensions, features, type provenance and the    *)
(* header version from the parsed vk.xml registry, and the `write` driver. *)
(*                                                                         *)
(* Strings whose characters the code inspects (names, code payloads) are   *)
(* sequences of byte values; Option<T> is a sequence of length 0 (None) or *)
(* 1 (Some); a HashMap is a function; an IndexMap is a sequence of         *)
(* [key, value] entries in insertion order.                                *)
(***************************************************************************)
EXTENDS Integers, Sequences, FiniteSets, TLC

VARIABLES document,        \* what vk_parse::parse_file will return for "vk.xml"
          registry,        \* the loaded Registry
          hasher,          \* the iteration order of this process's HashMaps
          pc,              \* the position in the running function
          aliases, extensions, features, types, header_version,
          out,             \* the blocks returned by the four emitters
          sink,            \* what the writer has received, piece by piece
          stderr,          \* the number of lines printed by eprintln!
          prev             \* the results of the previous process, if any

vars == <<document, registry, hasher, pc, aliases, extensions, features, types,
          header_version, out, sink, stderr, prev>>

(***************************************************************************)
(* Option, str and collection primitives of the Rust standard library.     *)
(***************************************************************************)
None == <<>>

Some(x) == <<x>>

is_some(o) == Len(o) = 1

is_none(o) == Len(o) = 0

unwrap(o) == o[1]

RECURSIVE starts_with(_, _)
starts_with(s, p) ==
    IF p = <<>> THEN TRUE
    ELSE IF s = <<>> THEN FALSE
    ELSE Head(s) = Head(p) /\ starts_with(Tail(s), Tail(p))

\* Ord for str: bytewise lexicographic, a proper prefix is smaller.
RECURSIVE str_lt(_, _)
str_lt(a, b) ==
    IF b = <<>> THEN FALSE
    ELSE IF a = <<>> THEN TRUE
    ELSE IF Head(a) # Head(b) THEN Head(a) < Head(b)
    ELSE str_lt(Tail(a), Tail(b))

RECURSIVE flatten(_)
flatten(ss) == IF ss = <<>> THEN <<>> ELSE Head(ss) \o flatten(Tail(ss))

Range(s) == {s[i] : i \in 1..Len(s)}

EmptyMap == [k \in {} |-> <<>>]

\* HashMap::insert: the later value replaces the earlier one.
hashmap_insert(m, k, v) == [x \in DOMAIN m \cup {k} |-> IF x = k THEN v ELSE m[x]]

\* HashMap's FromIterator: inserts the pairs in iteration order.
RECURSIVE hashmap_collect(_)
hashmap_collect(pairs) ==
    IF pairs = <<>> THEN EmptyMap
    ELSE LET n == Len(pairs)
         IN hashmap_insert(hashmap_collect(SubSeq(pairs, 1, n - 1)),
                           pairs[n][1], pairs[n][2])

index_of(m, k) ==
    IF \E i \in 1..Len(m) : m[i].key = k
    THEN CHOOSE i \in 1..Len(m) : m[i].key = k
    ELSE 0

\* IndexMap::insert: a new key is appended; an existing key keeps its
\* position and takes the new value.
indexmap_insert(m, k, v) ==
    LET i == index_of(m, k)
    IN IF i = 0 THEN Append(m, [key |-> k, value |-> v])
       ELSE [m EXCEPT ![i] = [key |-> k, value |-> v]]

RECURSIVE indexmap_collect(_)
indexmap_collect(pairs) ==
    IF pairs = <<>> THEN <<>>
    ELSE LET n == Len(pairs)
         IN indexmap_insert(indexmap_collect(SubSeq(pairs, 1, n - 1)),
                            pairs[n][1], pairs[n][2])

keys(m) == [i \in 1..Len(m) |-> m[i].key]

\* The order in which a HashMap with key set S yields its entries: that of
\* the process's hasher.
RECURSIVE hash_order(_, _)
hash_order(h, S) ==
    IF h = <<>> THEN <<>>
    ELSE IF Head(h) \in S THEN <<Head(h)>> \o hash_order(Tail(h), S)
    ELSE hash_order(Tail(h), S)

(***************************************************************************)
(* Names used by the registries below, as byte strings.                    *)
(***************************************************************************)
\* "VK_KHR_"
KHR_PREFIX == <<86, 75, 95, 75, 72, 82, 95>>

\* "VK_EXT_"
EXT_PREFIX == <<86, 75, 95, 69, 88, 84, 95>>

\* "VK_KHR_a", "VK_KHR_b", "VK_EXT_a", and "VK_KHR" (no vendor prefix:
\* the underscore after the vendor tag is missing)
VK_KHR_a == KHR_PREFIX \o <<97>>

VK_KHR_b == KHR_PREFIX \o <<98>>

VK_EXT_a == EXT_PREFIX \o <<97>>

VK_KHR == <<86, 75, 95, 75, 72, 82>>

ExtNames == {VK_KHR_a, VK_KHR_b, VK_EXT_a, VK_KHR}

(***************************************************************************)
(* The parsed registry (vk_parse::Registry): a sequence of RegistryChild.  *)
(***************************************************************************)
TypesSection(children) == [kind |-> "Types", body |-> children]

FeatureSection(feat) == [kind |-> "Feature", body |-> feat]

ExtensionsSection(children) == [kind |-> "Extensions", body |-> children]

CommentSection == [kind |-> "Comment", body |-> <<>>]

ExtensionDecl(n, sup, obs, ch) ==
    [name |-> n, supported |-> sup, obsoletedby |-> obs, children |-> ch]

(***************************************************************************)
(* get_extensions                                                          *)
(***************************************************************************)
retained_mut(ext) == ext.supported = Some("vulkan")

\* the filter of lines 96-97
retained(ext) == ext.supported = Some("vulkan") /\ is_none(ext.obsoletedby)

RECURSIVE filter_retained(_)
filter_retained(exts) ==
    IF exts = <<>> THEN <<>>
    ELSE IF retained(Head(exts)) THEN <<Head(exts)>> \o filter_retained(Tail(exts))
    ELSE filter_retained(Tail(exts))

\* `iter`: the retained declarations of every <extensions> section,
\* flattened in document order
retained_iter(reg) ==
    flatten([i \in 1..Len(reg) |->
        IF reg[i].kind = "Extensions" THEN filter_retained(reg[i].body) ELSE <<>>])

sort_key_mut(name) == <<0, name>>

\* the closure given to sort_unstable_by_key
sort_key(name) ==
    IF starts_with(name, KHR_PREFIX) THEN <<0, name>>
    ELSE IF starts_with(name, EXT_PREFIX) THEN <<1, name>>
    ELSE <<2, name>>

\* Ord for (i32, String)
key_lt(a, b) == a[1] < b[1] \/ (a[1] = b[1] /\ str_lt(a[2], b[2]))

RECURSIVE insert_sorted(_, _)
insert_sorted(sorted, name) ==
    IF sorted = <<>> THEN <<name>>
    ELSE IF key_lt(sort_key(name), sort_key(Head(sorted)))
         THEN <<name>> \o sorted
         ELSE <<Head(sorted)>> \o insert_sorted(Tail(sorted), name)

sort_by_key_mut(names) == hash_order(hasher, Range(names))

\* sort_unstable_by_key: elements with equal keys are equal names, so the
\* sorted vector is unique
RECURSIVE sort_by_key(_)
sort_by_key(names) ==
    IF names = <<>> THEN <<>>
    ELSE insert_sorted(sort_by_key(Tail(names)), Head(names))

get_extensions(reg) ==
    LET iter == retained_iter(reg)
        exts == hashmap_collect([i \in 1..Len(iter) |-> <<iter[i].name, iter[i]>>])
        names == sort_by_key([i \in 1..Len(iter) |-> iter[i].name])
    IN indexmap_collect([i \in 1..Len(names) |-> <<names[i], exts[names[i]]>>])

(***************************************************************************)
(* get_features                                                            *)
(***************************************************************************)
FeatureDecl(n, ch) == [name |-> n, children |-> ch]

feature_pairs_mut(reg) ==
    LET n == Len(reg)
    IN flatten([i \in 1..n |->
        IF reg[n + 1 - i].kind = "Feature"
        THEN <<(<<reg[n + 1 - i].body.name, reg[n + 1 - i].body>>)>> ELSE <<>>])

\* the filter_map of lines 128-134: one (name, feature) pair per <feature>
feature_pairs(reg) ==
    flatten([i \in 1..Len(reg) |->
        IF reg[i].kind = "Feature"
        THEN <<(<<reg[i].body.name, reg[i].body>>)>> ELSE <<>>])

get_features(reg) == indexmap_collect(feature_pairs(reg))

(***************************************************************************)
(* Type declarations                                                       *)
(***************************************************************************)
NoSpec == [kind |-> "None", code |-> <<>>, markup |-> <<>>]

CodeSpec(code, markup) == [kind |-> "Code", code |-> code, markup |-> markup]

MarkupName(n) == [kind |-> "Name", val |-> n]

MarkupType(n) == [kind |-> "Type", val |-> n]

TypeDecl(n, al, sp) == [name |-> n, alias |-> al, spec |-> sp]

\* TypesChild::Type and TypesChild::Comment
TypeChild(ty) == [kind |-> "Type", ty |-> ty]

CommentChild == [kind |-> "Comment", ty |-> <<>>]

RECURSIVE type_decls_of(_)
type_decls_of(children) ==
    IF children = <<>> THEN <<>>
    ELSE IF Head(children).kind = "Type"
         THEN <<Head(children).ty>> \o type_decls_of(Tail(children))
         ELSE type_decls_of(Tail(children))

\* every TypesChild::Type of every <types> section, in document order
type_decls(reg) ==
    flatten([i \in 1..Len(reg) |->
        IF reg[i].kind = "Types" THEN type_decls_of(reg[i].body) ELSE <<>>])

(***************************************************************************)
(* get_aliases                                                             *)
(***************************************************************************)
\* ty.name.as_ref().unwrap() of line 77 panics on an alias without a name
get_aliases_panics(reg) ==
    \E i \in 1..Len(type_decls(reg)) :
        is_some(type_decls(reg)[i].alias) /\ is_none(type_decls(reg)[i].name)

RECURSIVE alias_pairs(_)
alias_pairs(decls) ==
    IF decls = <<>> THEN <<>>
    ELSE IF is_some(Head(decls).alias)
         THEN <<(<<unwrap(Head(decls).name), unwrap(Head(decls).alias)>>)>>
              \o alias_pairs(Tail(decls))
         ELSE alias_pairs(Tail(decls))

get_aliases(reg) == hashmap_collect(alias_pairs(type_decls(reg)))

(***************************************************************************)
(* get_types                                                               *)
(***************************************************************************)
ProvenanceEntry(ty, provs) == [ty |-> ty, providers |-> provs]

RECURSIVE definition_pairs(_)
definition_pairs(decls) ==
    IF decls = <<>> THEN <<>>
    ELSE IF is_none(Head(decls).alias) /\ is_some(Head(decls).name)
         THEN <<(<<unwrap(Head(decls).name), ProvenanceEntry(Head(decls), <<>>)>>)>>
              \o definition_pairs(Tail(decls))
         ELSE definition_pairs(Tail(decls))

\* lines 144-161: every named, non-alias declaration with no provider yet
declared_types(reg) == hashmap_collect(definition_pairs(type_decls(reg)))

RequireChild(items) == [kind |-> "Require", items |-> items]

RemoveChild == [kind |-> "Remove", items |-> <<>>]

TypeItem(n) == [kind |-> "Type", name |-> n]

CommandItem(n) == [kind |-> "Command", name |-> n]

RECURSIVE type_item_names(_)
type_item_names(items) ==
    IF items = <<>> THEN <<>>
    ELSE IF Head(items).kind = "Type"
         THEN <<Head(items).name>> \o type_item_names(Tail(items))
         ELSE type_item_names(Tail(items))

\* lines 168-182: the names of the Type items of the Require children
required_names(children) ==
    flatten([i \in 1..Len(children) |->
        IF children[i].kind = "Require"
        THEN type_item_names(children[i].items) ELSE <<>>])

resolve_mut(als, item_name) == item_name

\* aliases.get(item_name).unwrap_or(&item_name): one lookup, no chasing
resolve(als, item_name) ==
    IF item_name \in DOMAIN als THEN als[item_name] ELSE item_name

\* lines 185-189
push_provider(tys, provided_by, item_name) ==
    IF item_name \in DOMAIN tys
    THEN IF provided_by \in Range(tys[item_name].providers)
         THEN tys
         ELSE [tys EXCEPT ![item_name].providers = Append(@, provided_by)]
    ELSE tys

RECURSIVE require_all(_, _, _, _)
require_all(tys, als, provided_by, names) ==
    IF names = <<>> THEN tys
    ELSE require_all(push_provider(tys, provided_by, resolve(als, Head(names))),
                     als, provided_by, Tail(names))

capabilities_mut(feats, exts) == exts \o feats

\* features.iter().chain(extensions.iter())
capabilities(feats, exts) == feats \o exts

RECURSIVE provide_all(_, _, _)
provide_all(tys, als, caps) ==
    IF caps = <<>> THEN tys
    ELSE provide_all(
            require_all(tys, als, Head(caps).key,
                        required_names(Head(caps).value.children)),
            als, Tail(caps))

keep_entry_mut(entry) == TRUE

\* the filter of line 195
keep_entry(entry) == entry.providers # <<>>

RECURSIVE filter_pairs(_, _)
filter_pairs(tys, order) ==
    IF order = <<>> THEN <<>>
    ELSE IF keep_entry(tys[Head(order)])
         THEN <<(<<Head(order), tys[Head(order)]>>)>> \o filter_pairs(tys, Tail(order))
         ELSE filter_pairs(tys, Tail(order))

get_types(reg, als, feats, exts) ==
    LET tys == provide_all(declared_types(reg), als, capabilities(feats, exts))
    IN hashmap_collect(filter_pairs(tys, hash_order(hasher, DOMAIN tys)))

(***************************************************************************)
(* get_header_version                                                      *)
(***************************************************************************)
\* "VK_HEADER_VERSION"
VK_HEADER_VERSION ==
    <<86, 75, 95, 72, 69, 65, 68, 69, 82, 95, 86, 69, 82, 83, 73, 79, 78>>

\* the separator given to rsplit_once: ' '
SP == 32

\* u16::MAX
U16_MAX == 65535

split_at(s, i) == <<SubSeq(s, 1, i - 1), SubSeq(s, i + 1, Len(s))>>

rsplit_once_mut(s, c) ==
    IF \E i \in 1..Len(s) : s[i] = c
    THEN Some(split_at(s, CHOOSE i \in 1..Len(s) :
                              s[i] = c /\ \A j \in 1..(i - 1) : s[j] # c))
    ELSE None

\* str::rsplit_once: the text before and after the last occurrence of c
rsplit_once(s, c) ==
    IF \E i \in 1..Len(s) : s[i] = c
    THEN Some(split_at(s, CHOOSE i \in 1..Len(s) :
                              s[i] = c /\ \A j \in (i + 1)..Len(s) : s[j] # c))
    ELSE None

\* the digit loop of u16::from_str: checked_mul and checked_add, an
\* overflow or a byte that is no ASCII digit is an Err (None here)
RECURSIVE parse_digits(_, _)
parse_digits(ds, acc) ==
    IF ds = <<>> THEN Some(acc)
    ELSE IF Head(ds) < 48 \/ Head(ds) > 57 THEN None
    ELSE IF acc * 10 + (Head(ds) - 48) > U16_MAX THEN None
    ELSE parse_digits(Tail(ds), acc * 10 + (Head(ds) - 48))

\* str::parse::<u16>: empty, a lone sign and "-..." are errors, one leading
\* '+' is accepted
parse_u16(s) ==
    IF s = <<>> THEN None
    ELSE IF Len(s) = 1 /\ (s[1] = 43 \/ s[1] = 45) THEN None
    ELSE IF s[1] = 43 THEN parse_digits(Tail(s), 0)
    ELSE parse_digits(s, 0)

\* line 206: a code payload one of whose markups is the name VK_HEADER_VERSION
has_marker(ty) ==
    /\ ty.spec.kind = "Code"
    /\ \E k \in 1..Len(ty.spec.markup) :
          ty.spec.markup[k].kind = "Name" /\ ty.spec.markup[k].val = VK_HEADER_VERSION

RECURSIVE find_marker(_)
find_marker(decls) ==
    IF decls = <<>> THEN None
    ELSE IF has_marker(Head(decls)) THEN Some(Head(decls))
    ELSE find_marker(Tail(decls))

\* Some(v) when get_header_version returns v, None when one of its three
\* unwraps panics: find_map stops at the first marked declaration
get_header_version(reg) ==
    LET found == find_marker(type_decls(reg))
    IN IF is_none(found) THEN None
       ELSE LET split == rsplit_once(unwrap(found).spec.code, SP)
            IN IF is_none(split) THEN None
               ELSE parse_u16(unwrap(split)[2])

(***************************************************************************)
(* get_registry and write                                                  *)
(***************************************************************************)
\* vk_parse::parse_file: Ok((registry, errors)), or Err (None here) when
\* the file is missing or is no XML at all
ParsedFile(tree, errors) == Some([tree |-> tree, errors |-> errors])

\* get_registry panics on Err; it prints a heading and one line per error
get_registry_panics(doc) == is_none(doc)

get_registry(doc) == unwrap(doc).tree

get_registry_eprintln(doc) ==
    IF unwrap(doc).errors = 0 THEN 0 ELSE 1 + unwrap(doc).errors

\* The emitters extensions::write, features::write, fns::write and
\* properties::write are other modules: each returns one block of tokens.
emit(emitter) == "out_" \o emitter

\* the pieces that write! hands to the writer, in order: the format string's
\* literals, the header version, and the quoted blocks
write_pieces(version, blocks) ==
    <<"// This file is auto-generated by vulkano autogen from vk.xml header version ",
      ToString(version),
      ".\n// It should not be edited manually. Changes should be made by editing autogen.\n\n">>
    \o blocks

emitted_before_write_mut(stage, version) ==
    IF stage = "get_header_version"
    THEN SubSeq(write_pieces(version, <<>>), 1, 2)
    ELSE <<>>

\* what a stage before the write! of line 36 sends to the writer: nothing,
\* the writer is used by write! alone
emitted_before_write(stage, version) == <<>>

(***************************************************************************)
(* Registries and specifications                                           *)
(***************************************************************************)
SeqsUpTo(S, n) == UNION {[1..k -> S] : k \in 0..n}

\* "VkA", "VkB", "VkC"
VkA == <<86, 107, 65>>

VkB == <<86, 107, 66>>

VkC == <<86, 107, 67>>

TypeNames == {VkA, VkB, VkC}

NothingComputed ==
    /\ aliases = EmptyMap
    /\ extensions = <<>>
    /\ features = <<>>
    /\ types = EmptyMap
    /\ header_version = None
    /\ out = <<>>
    /\ sink = <<>>
    /\ stderr = 0
    /\ prev = None

\* A call of one function on an already loaded registry.
CallState ==
    /\ document = None
    /\ hasher = <<VkA, VkB, VkC>>
    /\ pc = "call"
    /\ NothingComputed

(***************************************************************************)
(* get_extensions on every registry of up to MaxExtensionDecls extension   *)
(* declarations, split over two <extensions> sections.                     *)
(***************************************************************************)
MaxExtensionDecls == 3

\* <<supported, obsoletedby>>: no tag, the target platform, another
\* platform, and the target platform with a successor
ExtensionAttributes ==
    {<<None, None>>, <<Some("vulkan"), None>>, <<Some("vulkansc"), None>>,
     <<Some("vulkan"), Some(VK_KHR_b)>>}

ExtensionDecls ==
    {ExtensionDecl(n, at[1], at[2], <<>>) : n \in ExtNames, at \in ExtensionAttributes}

ExtensionRegistries ==
    {<<ExtensionsSection(SubSeq(s, 1, Len(s) \div 2)), CommentSection,
       ExtensionsSection(SubSeq(s, Len(s) \div 2 + 1, Len(s)))>> :
        s \in SeqsUpTo(ExtensionDecls, MaxExtensionDecls)}

InitExtensions == registry \in ExtensionRegistries /\ CallState

CallGetExtensions ==
    /\ pc = "call"
    /\ extensions' = get_extensions(registry)
    /\ pc' = "returned"
    /\ UNCHANGED <<document, registry, hasher, aliases, features, types,
                   header_version, out, sink, stderr, prev>>

NextExtensions == CallGetExtensions

SpecExtensions == InitExtensions /\ [][NextExtensions]_vars

\* every extension declaration of the registry, in document order
extension_decls(reg) ==
    flatten([i \in 1..Len(reg) |->
        IF reg[i].kind = "Extensions" THEN reg[i].body ELSE <<>>])

ExtensionKeys == Range(keys(extensions))

Eligible(ext) == ext.supported = <<"vulkan">> /\ ext.obsoletedby = <<>>

\* C1 (as claimed): for every extension declaration E, E's name is a key of
\* the collection returned by get_extensions if and only if E's support tag
\* is "vulkan" and E has no obsoletedby marker.
C1_KeyIffDeclarationEligible ==
    pc = "returned" =>
        \A E \in Range(extension_decls(registry)) :
            E.name \in ExtensionKeys <=> Eligible(E)

\* C1 (amended): a name is a key of the collection returned by
\* get_extensions if and only if some declaration of that name has the
\* support tag "vulkan" and no obsoletedby marker; and every declaration held
\* in the collection has that tag, no marker and the name of its key.
C1_KeyIffSomeDeclarationEligible ==
    pc = "returned" =>
        /\ \A n \in ExtNames :
              n \in ExtensionKeys <=>
                  \E E \in Range(extension_decls(registry)) : E.name = n /\ Eligible(E)
        /\ \A i \in 1..Len(extensions) :
              /\ Eligible(extensions[i].value)
              /\ extensions[i].value.name = extensions[i].key

C1_Witness ==
    /\ pc = "returned"
    /\ Len(extensions) = 1
    /\ \E E \in Range(extension_decls(registry)) : E.supported = None
    /\ \E E \in Range(extension_decls(registry)) :
          E.supported = Some("vulkan") /\ E.obsoletedby # None

HasPrefix(name, p) == Len(name) >= Len(p) /\ SubSeq(name, 1, Len(p)) = p

Tier(name) ==
    IF HasPrefix(name, <<86, 75, 95, 75, 72, 82, 95>>) THEN 0
    ELSE IF HasPrefix(name, <<86, 75, 95, 69, 88, 84, 95>>) THEN 1
    ELSE 2

TierKeyLess(a, b) ==
    Tier(a) < Tier(b) \/ (Tier(a) = Tier(b) /\ str_lt(a, b))

\* C2: the collection returned by get_extensions is strictly ascending
\* under (tier, name), tier 0 = "VK_KHR_" prefix, tier 1 = "VK_EXT_" prefix,
\* tier 2 = the rest: A precedes B exactly when key(A) < key(B), so no name
\* occurs twice, whatever the document order and however often a name is
\* declared.
C2_StrictlyAscendingByTierThenName ==
    pc = "returned" =>
        \A i, j \in 1..Len(extensions) :
            i < j <=> TierKeyLess(extensions[i].key, extensions[j].key)

C2_Witness ==
    /\ pc = "returned"
    /\ keys(extensions) = <<VK_KHR_a, VK_EXT_a>>
    /\ LET decls == extension_decls(registry)
       IN /\ Len(decls) = 3
          /\ \A i \in 1..3 : Eligible(decls[i])
          /\ decls[1].name = VK_EXT_a

(***************************************************************************)
(* get_features on every registry of up to MaxSections sections, each a    *)
(* <feature>, a comment or an empty <extensions> section.                  *)
(***************************************************************************)
MaxSections == 3

\* "VK_VERSION_1_0", "VK_VERSION_1_1"
VK_VERSION_1_0 == <<86, 75, 95, 86, 69, 82, 83, 73, 79, 78, 95, 49, 95, 48>>

VK_VERSION_1_1 == <<86, 75, 95, 86, 69, 82, 83, 73, 79, 78, 95, 49, 95, 49>>

FeatureNames == {VK_VERSION_1_0, VK_VERSION_1_1}

FeatureDecls ==
    {FeatureDecl(n, ch) :
        n \in FeatureNames,
        ch \in {<<>>, <<RequireChild(<<TypeItem(VkA)>>)>>}}

FeatureRegistries ==
    SeqsUpTo({FeatureSection(f) : f \in FeatureDecls}
                 \cup {CommentSection, ExtensionsSection(<<>>)},
             MaxSections)

InitFeatures == registry \in FeatureRegistries /\ CallState

CallGetFeatures ==
    /\ pc = "call"
    /\ features' = get_features(registry)
    /\ pc' = "returned"
    /\ UNCHANGED <<document, registry, hasher, aliases, extensions, types,
                   header_version, out, sink, stderr, prev>>

NextFeatures == CallGetFeatures

SpecFeatures == InitFeatures /\ [][NextFeatures]_vars

\* the positions of the <feature> sections in the document
FeaturePositions == {p \in 1..Len(registry) : registry[p].kind = "Feature"}

PositionsOf(n) == {p \in FeaturePositions : registry[p].body.name = n}

First(P) == CHOOSE p \in P : \A q \in P : p <= q

Last(P) == CHOOSE p \in P : \A q \in P : q <= p

KeyIndex(m, n) == CHOOSE i \in 1..Len(m) : m[i].key = n

\* C8 (as claimed): every feature declaration's name is a key of the
\* collection returned by get_features, and of two feature declarations with
\* distinct names the one declared earlier comes earlier in the collection.
C8_EarlierDeclarationComesEarlier ==
    pc = "returned" =>
        /\ \A p \in FeaturePositions :
              registry[p].body.name \in Range(keys(features))
        /\ \A p, q \in FeaturePositions :
              (p < q /\ registry[p].body.name # registry[q].body.name) =>
                  KeyIndex(features, registry[p].body.name)
                      < KeyIndex(features, registry[q].body.name)

\* C8 (amended): get_features applies no filtering: every feature
\* declaration's name is a key of the returned collection, exactly once; the
\* keys are in the order of the first declaration of each name, and a name
\* declared more than once holds its last declaration.
C8_KeysInOrderOfFirstDeclaration ==
    pc = "returned" =>
        /\ \A p \in FeaturePositions :
              registry[p].body.name \in Range(keys(features))
        /\ \A i \in 1..Len(features) :
              /\ PositionsOf(features[i].key) # {}
              /\ features[i].value = registry[Last(PositionsOf(features[i].key))].body
        /\ \A i, j \in 1..Len(features) :
              i < j => First(PositionsOf(features[i].key))
                           < First(PositionsOf(features[j].key))

C8_Witness ==
    /\ pc = "returned"
    /\ Len(registry) = 3
    /\ FeaturePositions = {1, 2, 3}
    /\ registry[1].body.name = registry[3].body.name
    /\ registry[1].body # registry[3].body
    /\ keys(features) = <<VK_VERSION_1_1, VK_VERSION_1_0>>

(***************************************************************************)
(* get_types after get_aliases, get_extensions and get_features, on two    *)
(* families of registries: every list of up to MaxTypeDecls type           *)
(* declarations with one feature and one extension requiring one type      *)
(* each; and a fixed <types> section with every list of up to              *)
(* MaxCapabilities features and extensions.                                *)
(***************************************************************************)
MaxTypeDecls == 2

MaxCapabilities == 3

TypeDeclChoices ==
    {TypeDecl(Some(n), al, NoSpec) :
        n \in TypeNames, al \in {None} \cup {Some(m) : m \in TypeNames}}
    \cup {TypeDecl(None, None, NoSpec)}

AliasRegistries ==
    {<<TypesSection(<<CommentChild>> \o [i \in 1..Len(tys) |-> TypeChild(tys[i])]),
       FeatureSection(FeatureDecl(VK_VERSION_1_0, <<RequireChild(<<TypeItem(f)>>)>>)),
       ExtensionsSection(<<ExtensionDecl(VK_KHR_a, Some("vulkan"), None,
                                         <<RequireChild(<<TypeItem(e)>>)>>)>>)>> :
        tys \in SeqsUpTo(TypeDeclChoices, MaxTypeDecls),
        f \in TypeNames, e \in TypeNames}

\* "vkCmd"
vkCmd == <<118, 107, 67, 109, 100>>

ChildrenChoices ==
    {<<>>,
     <<RequireChild(<<TypeItem(VkC), CommandItem(vkCmd)>>), RemoveChild,
       RequireChild(<<TypeItem(VkA)>>)>>,
     <<RequireChild(<<TypeItem(VkB)>>)>>}

CapabilitySections ==
    {FeatureSection(FeatureDecl(n, ch)) :
        n \in {VK_KHR_a, VK_EXT_a}, ch \in ChildrenChoices}
    \cup {ExtensionsSection(<<ExtensionDecl(n, Some("vulkan"), None, ch)>>) :
        n \in {VK_KHR_a, VK_EXT_a}, ch \in ChildrenChoices}
    \cup {ExtensionsSection(<<ExtensionDecl(VK_KHR_a, Some("vulkan"),
                                            Some(VK_KHR_b), ch)>>) :
        ch \in ChildrenChoices}

FixedTypes ==
    TypesSection(<<TypeChild(TypeDecl(Some(VkA), None, NoSpec)),
                   TypeChild(TypeDecl(Some(VkB), None, NoSpec)),
                   TypeChild(TypeDecl(Some(VkC), Some(VkA), NoSpec))>>)

CapabilityRegistries ==
    {<<FixedTypes>> \o caps : caps \in SeqsUpTo(CapabilitySections, MaxCapabilities)}

InitTypes ==
    /\ registry \in AliasRegistries \cup CapabilityRegistries
    /\ CallState

\* lines 25-28 of write: the four calls that lead to the provenance map
CallGetTypes ==
    /\ pc = "call"
    /\ IF get_aliases_panics(registry)
       THEN /\ pc' = "panicked"
            /\ UNCHANGED <<aliases, extensions, features, types>>
       ELSE /\ aliases' = get_aliases(registry)
            /\ extensions' = get_extensions(registry)
            /\ features' = get_features(registry)
            /\ types' = get_types(registry, aliases', features', extensions')
            /\ pc' = "returned"
    /\ UNCHANGED <<document, registry, hasher, header_version, out, sink,
                   stderr, prev>>

NextTypes == CallGetTypes

SpecTypes == InitTypes /\ [][NextTypes]_vars

\* the names of the named definition-kind (non-alias) type declarations
CanonicalNames ==
    {unwrap(d.name) : d \in {d \in Range(type_decls(registry)) :
                                 d.alias = None /\ d.name # None}}

\* the names of the Type items of a capability's require blocks
NamesRequired(children) ==
    UNION {{children[i].items[k].name :
                k \in {k \in 1..Len(children[i].items) :
                           children[i].items[k].kind = "Type"}} :
           i \in {i \in 1..Len(children) : children[i].kind = "Require"}}

\* one hop through the AliasMap
OneHop(n) == IF n \in DOMAIN aliases THEN aliases[n] ELSE n

\* the capability declarations of the document: the features and the
\* extensions that pass the filter
DeclaredCapabilities ==
    {registry[p].body : p \in FeaturePositions}
    \cup {E \in Range(extension_decls(registry)) : Eligible(E)}

\* the capabilities that get_types is given
HeldCapabilities == Range(features) \cup Range(extensions)

RequiresDirectlyOrByAlias(children, T) ==
    \/ T \in NamesRequired(children)
    \/ \E N \in NamesRequired(children) : N \in DOMAIN aliases /\ aliases[N] = T

\* C3 (as claimed): a declared canonical type T is a key of the map returned
\* by get_types if and only if some Feature or retained Extension has a
\* require block that names T or names an alias resolving to T.
C3_KeyIffRequiredByDeclaredCapability ==
    pc = "returned" =>
        \A T \in CanonicalNames :
            T \in DOMAIN types <=>
                \E C \in DeclaredCapabilities :
                    RequiresDirectlyOrByAlias(C.children, T)

\* C3 (amended): a declared canonical type T is a key of the map returned by
\* get_types if and only if some capability held in the collections of
\* get_features and get_extensions (for a name declared more than once: the
\* last declaration) has a require block with a type item whose name the
\* AliasMap maps to T, or whose name is T and is not an AliasMap key; no
\* other name is a key.
C3_KeyIffRequiredByHeldCapability ==
    pc = "returned" =>
        /\ DOMAIN types \subseteq CanonicalNames
        /\ \A T \in CanonicalNames :
              T \in DOMAIN types <=>
                  \E C \in HeldCapabilities :
                      \E N \in NamesRequired(C.value.children) : OneHop(N) = T

C3_Witness ==
    /\ pc = "returned"
    /\ DOMAIN types = {VkA}
    /\ CanonicalNames = {VkA, VkB}
    /\ \E E \in Range(extension_decls(registry)) :
          ~Eligible(E) /\ VkB \in NamesRequired(E.children)
    /\ \E C \in HeldCapabilities : VkC \in NamesRequired(C.value.children)

\* C4 (as claimed): if a capability C requires an alias name N that the
\* AliasMap maps to M, the final provenance map has M as a key whose
\* provider set contains C, and N is not a key; also when M is itself an
\* alias.
C4_AliasTargetIsKey ==
    pc = "returned" =>
        \A C \in HeldCapabilities :
            \A N \in NamesRequired(C.value.children) \cap DOMAIN aliases :
                /\ aliases[N] \in DOMAIN types
                /\ C.key \in Range(types[aliases[N]].providers)
                /\ N \notin DOMAIN types

\* C4 (amended): if a capability C requires an alias name N that the
\* AliasMap maps to M, and M is declared as a named definition-kind type,
\* the final provenance map has M as a key whose provider set contains C;
\* N is a key only if N is also declared as a definition-kind type. When M
\* is not a declared definition (it is only an alias, or undeclared), the
\* requirement of N adds nothing to the map.
C4_DeclaredAliasTargetIsKey ==
    pc = "returned" =>
        \A C \in HeldCapabilities :
            \A N \in NamesRequired(C.value.children) \cap DOMAIN aliases :
                /\ aliases[N] \in CanonicalNames =>
                      /\ aliases[N] \in DOMAIN types
                      /\ C.key \in Range(types[aliases[N]].providers)
                /\ N \in DOMAIN types => N \in CanonicalNames
                /\ aliases[N] \notin CanonicalNames => aliases[N] \notin DOMAIN types

C4_Witness ==
    /\ pc = "returned"
    /\ aliases = (VkC :> VkA)
    /\ \E C \in HeldCapabilities :
          /\ NamesRequired(C.value.children) = {VkC}
          /\ VkA \in DOMAIN types
          /\ types[VkA].providers = <<C.key>>
    /\ VkC \notin DOMAIN types

\* the pass order of get_types: the features, then the extensions
PassOrder == features \o extensions

FirstSeen(T, n) ==
    First({k \in 1..Len(PassOrder) :
              /\ PassOrder[k].key = n
              /\ \E N \in NamesRequired(PassOrder[k].value.children) : OneHop(N) = T})

\* C9: every provider set of the map returned by get_types is non-empty,
\* holds no name twice, holds exactly the names of the capabilities that
\* require the type, and is ordered by first-seen position in the pass
\* order: the features in their order, then the extensions in theirs.
C9_ProvidersInPassOrder ==
    pc = "returned" =>
        \A T \in DOMAIN types :
            LET ps == types[T].providers
            IN /\ ps # <<>>
               /\ \A i, j \in 1..Len(ps) : i # j => ps[i] # ps[j]
               /\ Range(ps) =
                     {PassOrder[k].key : k \in {k \in 1..Len(PassOrder) :
                         \E N \in NamesRequired(PassOrder[k].value.children) :
                             OneHop(N) = T}}
               /\ \A i, j \in 1..Len(ps) :
                     i < j => FirstSeen(T, ps[i]) < FirstSeen(T, ps[j])

C9_Witness ==
    /\ pc = "returned"
    /\ Len(registry) = 4
    /\ registry[2].kind = "Extensions"
    /\ registry[4].kind = "Feature"
    /\ keys(features) = <<VK_EXT_a>>
    /\ keys(extensions) = <<VK_KHR_a, VK_EXT_a>>
    /\ VkA \in DOMAIN types
    /\ types[VkA].providers = <<VK_EXT_a, VK_KHR_a>>

(***************************************************************************)
(* get_header_version on two families of registries: one marked            *)
(* declaration, after an unmarked one, whose payload is any text of up to  *)
(* MaxPayloadLen bytes or one of some longer texts; and every list of up   *)
(* to MaxMarkerDecls declarations, marked or not, over two sections.       *)
(***************************************************************************)
MaxPayloadLen == 3

MaxMarkerDecls == 2

\* ' ', tab, '+', '0', '2', 'a'
PayloadBytes == {32, 9, 43, 48, 50, 97}

\* "#define VK_HEADER_VERSION"
DefineText == <<35, 100, 101, 102, 105, 110, 101, 32>> \o VK_HEADER_VERSION

\* "... 213", "... 65535", "... 65536", "... abc", "... -1", "...\t213",
\* "... 213 " and the text with no number at all
LongPayloads ==
    {DefineText \o <<32, 50, 49, 51>>,
     DefineText \o <<32, 54, 53, 53, 51, 53>>,
     DefineText \o <<32, 54, 53, 53, 51, 54>>,
     DefineText \o <<32, 97, 98, 99>>,
     DefineText \o <<32, 45, 49>>,
     DefineText \o <<9, 50, 49, 51>>,
     DefineText \o <<32, 50, 49, 51, 32>>,
     DefineText}

Marked(code) ==
    TypeDecl(None, None,
             CodeSpec(code, <<MarkupType(VkA), MarkupName(VK_HEADER_VERSION)>>))

\* "VK_HEADER_VERSION_COMPLETE" is another name
Unmarked(code) ==
    TypeDecl(None, None,
             CodeSpec(code, <<MarkupName(VK_HEADER_VERSION \o
                                 <<95, 67, 79, 77, 80, 76, 69, 84, 69>>)>>))

PayloadRegistries ==
    {<<CommentSection,
       TypesSection(<<TypeChild(Unmarked(<<32, 55>>)), CommentChild,
                      TypeChild(Marked(code))>>)>> :
        code \in SeqsUpTo(PayloadBytes, MaxPayloadLen) \cup LongPayloads}

MarkerDeclChoices ==
    {Marked(<<32, 50, 49, 51>>), Marked(<<32, 50, 49, 52>>),
     Marked(<<32, 97, 98, 99>>), Unmarked(<<32, 55>>),
     TypeDecl(Some(VkA), None, NoSpec)}

MarkerRegistries ==
    {<<TypesSection([i \in 1..(Len(tys) \div 2) |-> TypeChild(tys[i])]),
       TypesSection([i \in 1..(Len(tys) - Len(tys) \div 2) |->
                        TypeChild(tys[Len(tys) \div 2 + i])])>> :
        tys \in SeqsUpTo(MarkerDeclChoices, MaxMarkerDecls)}

InitHeader ==
    /\ registry \in PayloadRegistries \cup MarkerRegistries
    /\ CallState

CallGetHeaderVersion ==
    /\ pc = "call"
    /\ header_version' = get_header_version(registry)
    /\ pc' = IF is_some(header_version') THEN "returned" ELSE "panicked"
    /\ UNCHANGED <<document, registry, hasher, aliases, extensions, features,
                   types, out, sink, stderr, prev>>

NextHeader == CallGetHeaderVersion

SpecHeader == InitHeader /\ [][NextHeader]_vars

\* the code payloads that carry the marker name, in document order
MarkedPayloads ==
    LET decls == type_decls(registry)
        marked == {i \in 1..Len(decls) :
                      /\ decls[i].spec.kind = "Code"
                      /\ [kind |-> "Name", val |-> VK_HEADER_VERSION]
                             \in Range(decls[i].spec.markup)}
    IN [k \in 1..Cardinality(marked) |->
           decls[CHOOSE i \in marked :
                     Cardinality({j \in marked : j <= i}) = k].spec.code]

\* the text after the last byte of `seps` in `code`; no token without one
TrailingToken(code, seps) ==
    LET at == {i \in 1..Len(code) : code[i] \in seps}
    IN IF at = {} THEN None
       ELSE Some(SubSeq(code, Last(at) + 1, Len(code)))

AllDigits(t) == t # <<>> /\ \A i \in 1..Len(t) : t[i] \in 48..57

RECURSIVE DigitsValue(_)
DigitsValue(t) ==
    IF t = <<>> THEN 0
    ELSE 10 * DigitsValue(SubSeq(t, 1, Len(t) - 1)) + (t[Len(t)] - 48)

\* t is the decimal form of an integer of 0..65535
IsDecimalU16(t) ==
    /\ AllDigits(t)
    /\ Len(t) > 1 => t[1] # 48
    /\ Len(t) <= 5
    /\ DigitsValue(t) <= 65535

\* the versions the claim lets the registry yield: those of the marked
\* payloads whose token after the final whitespace is a decimal u16
ClaimedVersions ==
    {DigitsValue(unwrap(TrailingToken(MarkedPayloads[k], {32, 9}))) :
        k \in {k \in 1..Len(MarkedPayloads) :
                  /\ TrailingToken(MarkedPayloads[k], {32, 9}) # None
                  /\ IsDecimalU16(unwrap(TrailingToken(MarkedPayloads[k], {32, 9})))}}

\* C5 (as claimed): get_header_version returns v exactly when the registry
\* holds a marked payload whose token after its final whitespace separator
\* is the decimal form of v, 0 <= v <= 65535; otherwise it aborts.
C5_ReturnsVersionOfAnyMarkedPayload ==
    pc # "call" =>
        /\ \A v \in ClaimedVersions : pc = "returned" /\ header_version = Some(v)
        /\ ClaimedVersions = {} => pc = "panicked"

\* what str::parse::<u16> accepts: an optional '+', then digits whose value
\* fits 16 bits (leading zeros allowed)
AcceptedToken(t) ==
    LET ds == IF t # <<>> /\ t[1] = 43 THEN Tail(t) ELSE t
    IN AllDigits(ds) /\ DigitsValue(ds) <= 65535

\* C5 (amended): get_header_version is decided by the first marked payload
\* in document order alone: it returns v exactly when that payload holds a
\* space (U+0020; a tab is no separator) and the text after its last space
\* is an optional '+' followed by ASCII digits of value v <= 65535 (leading
\* zeros allowed); with no marked payload, no space, or any other trailing
\* token it panics and yields no value.
C5_ReturnsVersionOfFirstMarkedPayload ==
    pc # "call" =>
        LET token == IF MarkedPayloads = <<>> THEN None
                     ELSE TrailingToken(MarkedPayloads[1], {32})
            ok == token # None /\ AcceptedToken(unwrap(token))
        IN /\ pc = (IF ok THEN "returned" ELSE "panicked")
           /\ ok => header_version =
                        Some(DigitsValue(IF unwrap(token)[1] = 43
                                         THEN Tail(unwrap(token)) ELSE unwrap(token)))
           /\ ~ok => header_version = None

C5_Witness ==
    /\ pc = "returned"
    /\ header_version = Some(213)
    /\ MarkedPayloads = <<DefineText \o <<32, 50, 49, 51>>>>

(***************************************************************************)
(* write, stage by stage, on documents that are unreadable or hold up to   *)
(* MaxWriteTypeDecls type declarations (named or not, alias or not), a     *)
(* header version that is valid, malformed or missing, one feature and one *)
(* extension.                                                              *)
(***************************************************************************)
MaxWriteTypeDecls == 2

WriteTypeChoices ==
    {TypeDecl(Some(VkA), None, NoSpec), TypeDecl(None, None, NoSpec),
     TypeDecl(Some(VkB), Some(VkA), NoSpec), TypeDecl(None, Some(VkA), NoSpec)}

HeaderChoices == {<<>>, <<Marked(<<32, 50, 49, 51>>)>>, <<Marked(<<32, 97, 98, 99>>)>>}

WriteRegistries ==
    {<<TypesSection([i \in 1..Len(tys \o hdr) |-> TypeChild((tys \o hdr)[i])]),
       FeatureSection(FeatureDecl(VK_VERSION_1_0,
           <<RequireChild(<<TypeItem(VkB), TypeItem(VkC)>>)>>)),
       ExtensionsSection(<<ExtensionDecl(VK_KHR_a, Some("vulkan"), None,
           <<RequireChild(<<TypeItem(VkA)>>)>>)>>)>> :
        tys \in SeqsUpTo(WriteTypeChoices, MaxWriteTypeDecls),
        hdr \in HeaderChoices}

Documents ==
    {None} \cup {ParsedFile(tree, errors) : tree \in WriteRegistries, errors \in {0, 1}}

InitWrite ==
    /\ document \in Documents
    /\ registry = <<>>
    /\ hasher = <<VkA, VkB, VkC>>
    /\ pc = "get_registry"
    /\ NothingComputed

\* line 24
GetRegistry ==
    /\ pc = "get_registry"
    /\ IF get_registry_panics(document)
       THEN pc' = "panic:get_registry" /\ UNCHANGED <<registry, stderr>>
       ELSE /\ registry' = get_registry(document)
            /\ stderr' = get_registry_eprintln(document)
            /\ pc' = "get_aliases"
    /\ sink' = sink \o emitted_before_write("get_registry", 0)
    /\ UNCHANGED <<document, hasher, aliases, extensions, features, types,
                   header_version, out, prev>>

\* line 25
GetAliases ==
    /\ pc = "get_aliases"
    /\ IF get_aliases_panics(registry)
       THEN pc' = "panic:get_aliases" /\ UNCHANGED aliases
       ELSE aliases' = get_aliases(registry) /\ pc' = "get_extensions"
    /\ sink' = sink \o emitted_before_write("get_aliases", 0)
    /\ UNCHANGED <<document, registry, hasher, extensions, features, types,
                   header_version, out, stderr, prev>>

\* line 26
GetExtensions ==
    /\ pc = "get_extensions"
    /\ extensions' = get_extensions(registry)
    /\ pc' = "get_features"
    /\ sink' = sink \o emitted_before_write("get_extensions", 0)
    /\ UNCHANGED <<document, registry, hasher, aliases, features, types,
                   header_version, out, stderr, prev>>

\* line 27
GetFeatures ==
    /\ pc = "get_features"
    /\ features' = get_features(registry)
    /\ pc' = "get_types"
    /\ sink' = sink \o emitted_before_write("get_features", 0)
    /\ UNCHANGED <<document, registry, hasher, aliases, extensions, types,
                   header_version, out, stderr, prev>>

\* line 28
GetTypes ==
    /\ pc = "get_types"
    /\ types' = get_types(registry, aliases, features, extensions)
    /\ pc' = "get_header_version"
    /\ sink' = sink \o emitted_before_write("get_types", 0)
    /\ UNCHANGED <<document, registry, hasher, aliases, extensions, features,
                   header_version, out, stderr, prev>>

\* line 29
GetHeaderVersion ==
    /\ pc = "get_header_version"
    /\ header_version' = get_header_version(registry)
    /\ IF is_none(header_version')
       THEN pc' = "panic:get_header_version" /\ sink' = sink
       ELSE /\ pc' = "emit"
            /\ sink' = sink \o emitted_before_write("get_header_version",
                                                    unwrap(header_version'))
    /\ UNCHANGED <<document, registry, hasher, aliases, extensions, features,
                   types, out, stderr, prev>>

\* lines 31-34: the four emitters, in order; what they do besides returning
\* a block is not known here, so each may also panic
Emit ==
    /\ pc = "emit"
    /\ LET blocks == <<emit("extensions"), emit("features"), emit("fns"),
                       emit("properties")>>
       IN \E k \in 0..Len(blocks) :
            /\ out' = SubSeq(blocks, 1, k)
            /\ pc' = IF k = Len(blocks) THEN "write_fmt" ELSE "panic:emit"
    /\ sink' = sink \o emitted_before_write("emit", unwrap(header_version))
    /\ UNCHANGED <<document, registry, hasher, aliases, extensions, features,
                   types, header_version, stderr, prev>>

\* lines 36-51: write! sends the pieces one after the other; the writer may
\* fail at any of them, and the unwrap then panics
WriteFmt ==
    /\ pc = "write_fmt"
    /\ LET pieces == write_pieces(unwrap(header_version), out)
       IN \E k \in 0..Len(pieces) :
            /\ sink' = sink \o SubSeq(pieces, 1, k)
            /\ pc' = IF k = Len(pieces) THEN "done" ELSE "panic:write_fmt"
    /\ UNCHANGED <<document, registry, hasher, aliases, extensions, features,
                   types, header_version, out, stderr, prev>>

NextWrite ==
    \/ GetRegistry
    \/ GetAliases
    \/ GetExtensions
    \/ GetFeatures
    \/ GetTypes
    \/ GetHeaderVersion
    \/ Emit
    \/ WriteFmt

SpecWrite == InitWrite /\ [][NextWrite]_vars

UpstreamPanics == {"panic:get_registry", "panic:get_aliases", "panic:get_header_version"}

\* C6: the sink receives nothing until the loader, the extraction stages
\* and the four emitters have completed; when one of these stages panics the
\* sink has received nothing at all; and when write completes the sink holds
\* the header comment with the header version, then the four blocks.
C6_NothingWrittenBeforeAllStagesComplete ==
    /\ pc \notin {"done", "panic:write_fmt"} => sink = <<>>
    /\ pc \in UpstreamPanics \cup {"panic:emit"} => sink = <<>>
    /\ sink # <<>> => is_some(header_version) /\ Len(out) = 4
    /\ pc = "done" =>
          /\ Len(sink) = 7
          /\ sink[2] = ToString(unwrap(header_version))
          /\ SubSeq(sink, 4, 7) =
                 <<"out_extensions", "out_features", "out_fns", "out_properties">>

C6_Witness ==
    /\ pc = "panic:get_header_version"
    /\ sink = <<>>
    /\ DOMAIN types # {}
    /\ \E d \in Range(type_decls(registry)) : d.spec.kind = "Code"

\* the header version marker is present and its value parses
HeaderVersionParseable ==
    /\ MarkedPayloads # <<>>
    /\ TrailingToken(MarkedPayloads[1], {32}) # None
    /\ AcceptedToken(unwrap(TrailingToken(MarkedPayloads[1], {32})))

\* C10: the only fatal conditions are an unreadable document, a missing
\* header version marker and an unparseable header version: for every loaded
\* registry whose marker is present with a parseable value, no stage of
\* write before the output panics, whatever else the tree holds.
C10_OnlyThreeFatalConditions ==
    pc \in UpstreamPanics =>
        \/ document = None
        \/ ~HeaderVersionParseable

(***************************************************************************)
(* Two processes run the extraction (lines 25-29 of write) on the same     *)
(* registry, each with a hasher of its own, on registries of up to         *)
(* MaxRunCapabilities features and extensions.                             *)
(***************************************************************************)
MaxRunCapabilities == 2

RunCapabilitySections ==
    {FeatureSection(FeatureDecl(VK_VERSION_1_0, <<RequireChild(<<TypeItem(VkA)>>)>>)),
     FeatureSection(FeatureDecl(VK_VERSION_1_1, <<RequireChild(<<TypeItem(VkB)>>)>>)),
     ExtensionsSection(<<ExtensionDecl(VK_KHR_a, Some("vulkan"), None,
                            <<RequireChild(<<TypeItem(VkC), TypeItem(VkB)>>)>>)>>),
     ExtensionsSection(<<ExtensionDecl(VK_EXT_a, Some("vulkan"), None,
                            <<RequireChild(<<TypeItem(VkA)>>)>>)>>),
     ExtensionsSection(<<ExtensionDecl(VK_EXT_a, None, None,
                            <<RequireChild(<<TypeItem(VkB)>>)>>)>>)}

RunTypes ==
    TypesSection(<<TypeChild(TypeDecl(Some(VkA), None, NoSpec)),
                   TypeChild(TypeDecl(Some(VkB), None, NoSpec)),
                   TypeChild(TypeDecl(Some(VkC), Some(VkA), NoSpec)),
                   TypeChild(Marked(<<32, 50, 49, 51>>))>>)

RunRegistries ==
    {<<RunTypes>> \o caps : caps \in SeqsUpTo(RunCapabilitySections, MaxRunCapabilities)}

\* the keys of the HashMaps that these registries make the code iterate
\* (the provenance map) or could make it iterate (the extension map)
HashKeys == {VkA, VkB, VK_KHR_a, VK_EXT_a}

Hashers ==
    {h \in [1..Cardinality(HashKeys) -> HashKeys] : Range(h) = HashKeys}

InitRuns ==
    /\ registry \in RunRegistries
    /\ hasher \in Hashers
    /\ document = None
    /\ pc = "call"
    /\ NothingComputed

Results ==
    [aliases |-> aliases, extensions |-> extensions, features |-> features,
     types |-> types, header_version |-> header_version]

\* lines 25-29 of write
Extract ==
    /\ pc = "call"
    /\ aliases' = get_aliases(registry)
    /\ extensions' = get_extensions(registry)
    /\ features' = get_features(registry)
    /\ types' = get_types(registry, aliases', features', extensions')
    /\ header_version' = get_header_version(registry)
    /\ pc' = "returned"
    /\ UNCHANGED <<document, registry, hasher, out, sink, stderr, prev>>

\* the next build: a new process, whose HashMaps are seeded anew
NewProcess ==
    /\ pc = "returned"
    /\ prev = None
    /\ prev' = Some(Results)
    /\ hasher' \in Hashers
    /\ aliases' = EmptyMap
    /\ extensions' = <<>>
    /\ features' = <<>>
    /\ types' = EmptyMap
    /\ header_version' = None
    /\ pc' = "call"
    /\ UNCHANGED <<document, registry, out, sink, stderr>>

NextRuns == Extract \/ NewProcess

SpecRuns == InitRuns /\ [][NextRuns]_vars

\* C7: two runs of the extraction over the same registry give the same
\* aliases, feature sequence, extension sequence, provenance map (with the
\* same provider sequence for each key) and header version, whatever order
\* each process's HashMaps iterate in.
C7_SecondRunGivesSameResults ==
    (pc = "returned" /\ prev # None) => unwrap(prev) = Results

C7_Witness ==
    /\ pc = "returned"
    /\ prev # None
    /\ Cardinality(DOMAIN types) = 2
    /\ Len(extensions) = 2
    /\ hasher[1] = VkB
    /\ unwrap(prev).types = types
    /\ types[VkA].providers = <<VK_KHR_a, VK_EXT_a>>

====
